---- MODULE Spec2Model ----
(***************************************************************************)
(* Grapher: the scene store (vertices, edges, selection, edge under        *)
(* construction) and the event handlers of grapher.js, Vertex.js, Edge.js. *)
(* Every handler is one action; objects live in two heaps (V for Vertex    *)
(* objects, E for Edge/DirEdge objects) and are referred to by identity.   *)
(* Labels are sequences of character codes.                                *)
(***************************************************************************)
EXTENDS Integers, Sequences, FiniteSets, TLC

\* ---------------------------------------------------------------- constants
VERTEX_RADIUS == 30
VERTEX_PADDING == 10
SNAP_MARGIN == 10
EDGE_MARGIN == 6
BACKSPACE == 8
SHIFT == 16
CTRL == 17
DELETE == 46
\* lastKey = null
NoKey == 0

\* ------------------------------------------------------------------- bounds
\* Half the width measureText reports for one character (font metrics are
\* the host's; the width of a text is taken proportional to its length).
HalfCharWidth == 6

Pt(x, y) == [x |-> x, y |-> y]

\* --------------------------------------------------------------- references
NULL == [type |-> "null"]
VRef(i) == [type |-> "Vertex", id |-> i]
ERef(i) == [type |-> "Edge", id |-> i]
isVertex(o) == o.type = "Vertex"

VARIABLES
  vertices,        \* array of Vertex identities, insertion order
  edges,           \* array of Edge/DirEdge identities, insertion order
  V,               \* Vertex objects: id -> [x, y, radius, mouseOffsetX, mouseOffsetY, text]
  E,               \* Edge/DirEdge objects: id -> [kind, v1, v2, text]
  selectedObject,  \* NULL, VRef(id) or ERef(id)
  currentEdge,     \* NULL, a TempEdge/TempDirEdge or a not yet stored Edge/DirEdge
  movingObject,
  lastKey,
  shift,
  ctrl,
  mouseDown,
  thrown,          \* the exception the last handler ended with, or "none"
  emitted,         \* what the last event drew: [surface, doc]
  last,            \* the last event handled: [op, note, n, at]
  scenario,        \* how far the events so far follow Scenario
  scope            \* the inputs explored: event parameters and sizes

vars == <<vertices, edges, V, E, selectedObject, currentEdge, movingObject,
          lastKey, shift, ctrl, mouseDown, thrown, emitted, last, scenario, scope>>

\* The program state as one value, for the handlers to transform.
Cur == [vertices |-> vertices, edges |-> edges, V |-> V, E |-> E,
        selectedObject |-> selectedObject, currentEdge |-> currentEdge,
        movingObject |-> movingObject, lastKey |-> lastKey, shift |-> shift,
        ctrl |-> ctrl, mouseDown |-> mouseDown, thrown |-> "none",
        drawn |-> FALSE, output |-> <<>>]

Range(f) == {f[i] : i \in DOMAIN f}
Min(S) == CHOOSE m \in S : \A n \in S : m <= n
Abs(n) == IF n < 0 THEN -n ELSE n

\* ----------------------------------------------------------- label formatter
UNDERSCORE == 95
isDigit(c) == c \in 48..57

\* Length of the run of digits of t that starts at index i.
RECURSIVE DigitRun(_, _)
DigitRun(t, i) ==
  IF i <= Len(t) /\ isDigit(t[i]) THEN 1 + DigitRun(t, i + 1) ELSE 0

\* Length of the match of /_[0-9]+_/ at index i of t, 0 when there is none.
MatchAt(t, i) ==
  IF i <= Len(t) /\ t[i] = UNDERSCORE
  THEN LET n == DigitRun(t, i + 1) IN
       IF n >= 1 /\ i + n + 1 <= Len(t) /\ t[i + n + 1] = UNDERSCORE
       THEN n + 2 ELSE 0
  ELSE 0

\* text.match(new RegExp('_[0-9]+_', 'g')): the matches from index i on.
RECURSIVE MatchesFrom(_, _)
MatchesFrom(t, i) ==
  IF i > Len(t) THEN <<>>
  ELSE LET n == MatchAt(t, i) IN
       IF n > 0 THEN <<SubSeq(t, i, i + n - 1)>> \o MatchesFrom(t, i + n)
       ELSE MatchesFrom(t, i + 1)

IsAt(t, pat, i) ==
  /\ i + Len(pat) - 1 <= Len(t)
  /\ SubSeq(t, i, i + Len(pat) - 1) = pat

\* text.replace(new RegExp(pat, 'g'), rep) for a pattern of literal characters.
RECURSIVE ReplaceAllFrom(_, _, _, _)
ReplaceAllFrom(t, pat, rep, i) ==
  IF i > Len(t) THEN <<>>
  ELSE IF IsAt(t, pat, i) THEN rep \o ReplaceAllFrom(t, pat, rep, i + Len(pat))
  ELSE <<t[i]>> \o ReplaceAllFrom(t, pat, rep, i + 1)

ReplaceAll(t, pat, rep) == ReplaceAllFrom(t, pat, rep, 1)

StripUnderscores(m) == SelectSeq(m, LAMBDA c : c # UNDERSCORE)

\* The digits of a match as Unicode subscripts (U+2080 + digit).
SubscriptGlyphs(m) ==
  LET d == StripUnderscores(m) IN
  [k \in 1..Len(d) |-> IF isDigit(d[k]) THEN 8320 + (d[k] - 48) ELSE d[k]]

RECURSIVE SubstituteEach(_, _, _)
SubstituteEach(t, ms, i) ==
  IF i > Len(ms) THEN t
  ELSE SubstituteEach(ReplaceAll(t, ms[i], SubscriptGlyphs(ms[i])), ms, i + 1)

makeSubscripts(text) == SubstituteEach(text, MatchesFrom(text, 1), 1)

\* The digits of a match between "_{" and "}".
BracedDigits(m) == <<UNDERSCORE, 123>> \o StripUnderscores(m) \o <<125>>

RECURSIVE BraceEach(_, _, _)
BraceEach(t, ms, i) ==
  IF i > Len(ms) THEN t
  ELSE BraceEach(ReplaceAll(t, ms[i], BracedDigits(ms[i])), ms, i + 1)

\* LaTeXDrawer.makeLaTeXSubscripts
makeLaTeXSubscripts(text) == BraceEach(text, MatchesFrom(text, 1), 1)

measureText(text) == 2 * HalfCharWidth * Len(text)

\* ------------------------------------------------------------------ entities
Vertex(x, y) ==
  [x |-> x, y |-> y, radius |-> VERTEX_RADIUS,
   mouseOffsetX |-> 0, mouseOffsetY |-> 0, text |-> <<>>]

Edge(v1, v2) == [kind |-> "Edge", v1 |-> v1, v2 |-> v2, text |-> <<>>]
DirEdge(v1, v2) == [kind |-> "DirEdge", v1 |-> v1, v2 |-> v2, text |-> <<>>]
TempEdge(vertex, dest) == [kind |-> "TempEdge", vertex |-> vertex, dest |-> dest]
TempDirEdge(vertex, dest) == [kind |-> "TempDirEdge", vertex |-> vertex, dest |-> dest]

isTemp(e) == e # NULL /\ e.kind \in {"TempEdge", "TempDirEdge"}
isStored(e) == e # NULL /\ e.kind \in {"Edge", "DirEdge"}

\* Vertex.prototype.draw: the radius follows the width of the label.
VertexDrawn(v) ==
  LET width == measureText(makeSubscripts(v.text)) IN
  [v EXCEPT !.radius =
     IF 3 * width < 3 * 2 * VERTEX_RADIUS - VERTEX_RADIUS
     THEN VERTEX_RADIUS
     ELSE (width \div 2) + VERTEX_PADDING]

VertexContains(v, x, y) ==
  LET dx == x - v.x
      dy == y - v.y
  IN dx * dx + dy * dy <= v.radius * v.radius

\* Vertex.prototype.nearestCirclePoint: each coordinate is the centre's plus
\* radius * d / dist, with dist the square root of dx * dx + dy * dy. The
\* quotient is kept exact, as its numerator and the number under the root;
\* at the centre itself it is 0 / 0, which is NaN.
nearestCirclePoint(v, x, y) ==
  LET dx == x - v.x
      dy == y - v.y
      dist2 == dx * dx + dy * dy
  IN [x |-> [base |-> v.x, num |-> v.radius * dx, root |-> dist2],
      y |-> [base |-> v.y, num |-> v.radius * dy, root |-> dist2]]

\* A coordinate that is NaN: 0 / 0.
isNaN(c) == c.num = 0 /\ c.root = 0

\* Edge.prototype.contains and DirEdge.prototype.contains (the same body):
\* percent = dot / length^2 in (0, 1) and |cross / length| < EDGE_MARGIN;
\* with length 0 both quotients are NaN and every comparison is false.
EdgeContains(a, b, x, y) ==
  LET dx == b.x - a.x
      dy == b.y - a.y
      len2 == dx * dx + dy * dy
      dot == dx * (x - a.x) + dy * (y - a.y)
      cross == dx * (y - a.y) - dy * (x - a.x)
  IN /\ len2 > 0
     /\ dot > 0
     /\ dot < len2
     /\ cross * cross < EDGE_MARGIN * EDGE_MARGIN * len2

\* The same test at the point (x2 / 2, y2 / 2), all quantities doubled.
EdgeContainsHalf(a, b, x2, y2) ==
  LET dx == b.x - a.x
      dy == b.y - a.y
      len2 == dx * dx + dy * dy
      dot2 == dx * (x2 - 2 * a.x) + dy * (y2 - 2 * a.y)
      cross2 == dx * (y2 - 2 * a.y) - dy * (x2 - 2 * a.x)
  IN /\ len2 > 0
     /\ dot2 > 0
     /\ dot2 < 2 * len2
     /\ cross2 * cross2 < 4 * EDGE_MARGIN * EDGE_MARGIN * len2

setStartPoint(v, x, y) ==
  [v EXCEPT !.mouseOffsetX = v.x - x, !.mouseOffsetY = v.y - y]

\* setAnchorPoint forgetting the offset recorded at the press.
setAnchorPointCentred(v, x, y) == [v EXCEPT !.x = x, !.y = y]

setAnchorPoint(v, x, y) ==
  [v EXCEPT !.x = x + v.mouseOffsetX, !.y = y + v.mouseOffsetY]

\* --------------------------------------------------------------- scene store
RECURSIVE FirstVertexAt(_, _, _, _)
FirstVertexAt(s, x, y, i) ==
  IF i > Len(s.vertices) THEN NULL
  ELSE IF VertexContains(s.V[s.vertices[i]], x, y) THEN VRef(s.vertices[i])
  ELSE FirstVertexAt(s, x, y, i + 1)

RECURSIVE FirstEdgeAt(_, _, _, _)
FirstEdgeAt(s, x, y, i) ==
  IF i > Len(s.edges) THEN NULL
  ELSE LET e == s.E[s.edges[i]] IN
       IF EdgeContains(s.V[e.v1], s.V[e.v2], x, y) THEN ERef(s.edges[i])
       ELSE FirstEdgeAt(s, x, y, i + 1)

\* selectObject testing the edges before the vertices.
selectObjectEdgesFirst(s, x, y) ==
  LET e == FirstEdgeAt(s, x, y, 1) IN
  IF e # NULL THEN e ELSE FirstVertexAt(s, x, y, 1)

selectObject(s, x, y) ==
  LET v == FirstVertexAt(s, x, y, 1) IN
  IF v # NULL THEN v ELSE FirstEdgeAt(s, x, y, 1)

\* snap: one pass over the vertices, each axis tested against the value the
\* earlier iterations left.
RECURSIVE SnapFrom(_, _, _)
SnapFrom(s, id, i) ==
  IF i > Len(s.vertices) THEN s
  ELSE LET o == s.V[s.vertices[i]]
           v == s.V[id]
           nx == IF Abs(v.x - o.x) < SNAP_MARGIN THEN o.x ELSE v.x
           ny == IF Abs(v.y - o.y) < SNAP_MARGIN THEN o.y ELSE v.y
       IN SnapFrom([s EXCEPT !.V[id].x = nx, !.V[id].y = ny], id, i + 1)

snap(s, id) == SnapFrom(s, id, 1)

\* drawWith, its effect on the scene: every stored vertex recomputes its
\* radius (Vertex.prototype.draw).
drawWith(s) ==
  [s EXCEPT !.V = [id \in DOMAIN s.V |->
                     IF id \in Range(s.vertices) THEN VertexDrawn(s.V[id])
                     ELSE s.V[id]]]

\* draw: drawWith on the canvas context.
draw(s) == [drawWith(s) EXCEPT !.drawn = TRUE]

\* text.replace(' ', ''): the first space is removed.
RECURSIVE removeFirstSpace(_, _)
removeFirstSpace(t, i) ==
  IF i > Len(t) THEN t
  ELSE IF t[i] = 32 THEN SubSeq(t, 1, i - 1) \o SubSeq(t, i + 1, Len(t))
  ELSE removeFirstSpace(t, i + 1)

\* '\mbox{ }'
MBOX == <<92, 109, 98, 111, 120, 123, 32, 125>>

\* drawText: what surface c ("canvas" or "latex") receives for a label. The
\* canvas gets fillText with the subscripted text; the markup gets, from
\* advancedFillText, a node with the braced text unless the text is blank.
drawText(c, oldText) ==
  IF c = "canvas"
  THEN <<[prim |-> "text", text |-> makeSubscripts(oldText)]>>
  ELSE IF Len(removeFirstSpace(makeSubscripts(oldText), 1)) > 0
  THEN <<[prim |-> "node",
          text |-> ReplaceAll(makeLaTeXSubscripts(oldText), <<32>>, MBOX)]>>
  ELSE <<>>

\* A circle as a surface receives it.
circleOf(v) == [x |-> v.x, y |-> v.y, radius |-> v.radius]

\* Vertex.prototype.draw: the circle, then the label.
vertexPrimitives(s, id, c) ==
  <<[prim |-> "circle", at |-> circleOf(s.V[id])]>> \o drawText(c, s.V[id].text)

\* Edge.prototype.draw and DirEdge.prototype.draw: the line between the
\* points of the two circles nearest to the other centre, for a directed edge
\* the arrow head (filled, then stroked) at the second, then the label.
edgePrimitives(s, e, c) ==
  LET point1 == nearestCirclePoint(s.V[e.v1], s.V[e.v2].x, s.V[e.v2].y)
      point2 == nearestCirclePoint(s.V[e.v2], s.V[e.v1].x, s.V[e.v1].y)
  IN <<[prim |-> "line", from |-> point1, to |-> point2]>>
     \o (IF e.kind = "DirEdge"
         THEN <<[prim |-> "fill", at |-> point2], [prim |-> "stroke", at |-> point2]>>
         ELSE <<>>)
     \o drawText(c, e.text)

\* TempEdge.prototype.draw and TempDirEdge.prototype.draw: the line from the
\* point of the circle nearest to the pointer to the pointer, for a directed
\* one the arrow head at the pointer.
tempPrimitives(s, e) ==
  <<[prim |-> "line",
     from |-> nearestCirclePoint(s.V[e.vertex], e.dest.x, e.dest.y),
     to |-> e.dest]>>
  \o (IF e.kind = "TempDirEdge"
      THEN <<[prim |-> "fill", at |-> e.dest], [prim |-> "stroke", at |-> e.dest]>>
      ELSE <<>>)

RECURSIVE verticesDrawn(_, _, _)
verticesDrawn(s, c, i) ==
  IF i > Len(s.vertices) THEN <<>>
  ELSE vertexPrimitives(s, s.vertices[i], c) \o verticesDrawn(s, c, i + 1)

RECURSIVE edgesDrawn(_, _, _)
edgesDrawn(s, c, i) ==
  IF i > Len(s.edges) THEN <<>>
  ELSE edgePrimitives(s, s.E[s.edges[i]], c) \o edgesDrawn(s, c, i + 1)

\* drawWith, what surface c receives: the vertices, the edges, then the edge
\* under construction.
primitives(s, c) ==
  verticesDrawn(s, c, 1) \o edgesDrawn(s, c, 1)
  \o (IF isTemp(s.currentEdge) THEN tempPrimitives(s, s.currentEdge)
      ELSE IF isStored(s.currentEdge) THEN edgePrimitives(s, s.currentEdge, c)
      ELSE <<>>)

\* LaTeXDrawer.toLaTeXCode: the prologue, the primitives, the epilogue.
toLaTeXCode(texData) ==
  <<"\\begin{center}", "\\begin{tikzpicture}[scale=0.2]",
    "\\tikzstyle{every node}+=[inner sep=0pt]">>
  \o texData
  \o <<"\\end{tikzpicture}", "\\end{center}">>

containsEdgeSameDirection(s, edge) ==
  \E i \in 1..Len(s.edges) :
     edge.v1 = s.E[s.edges[i]].v1 /\ edge.v2 = s.E[s.edges[i]].v2

containsEdge(s, edge) ==
  \E i \in 1..Len(s.edges) :
     \/ edge.v1 = s.E[s.edges[i]].v1 /\ edge.v2 = s.E[s.edges[i]].v2
     \/ edge.v2 = s.E[s.edges[i]].v1 /\ edge.v1 = s.E[s.edges[i]].v2

\* Identities of new objects: any identity no live object has.
FreshV(s) == Len(s.V) + 1
FreshE(s) == Len(s.E) + 1

\* The vertices array after the loop "if (vertices[i] == selectedObject)
\* vertices.splice(i--, 1)", and the edges array after its twin: an element
\* in doomed is cut out and the scan goes on at the same index.
RECURSIVE spliceLoopSkipping(_, _, _)
spliceLoopSkipping(arr, doomed, i) ==
  IF i > Len(arr) THEN arr
  ELSE IF arr[i] \in doomed
       THEN spliceLoopSkipping(SubSeq(arr, 1, i - 1) \o SubSeq(arr, i + 1, Len(arr)),
                               doomed, i + 1)
       ELSE spliceLoopSkipping(arr, doomed, i + 1)

RECURSIVE spliceLoop(_, _, _)
spliceLoop(arr, doomed, i) ==
  IF i > Len(arr) THEN arr
  ELSE IF arr[i] \in doomed
       THEN spliceLoop(SubSeq(arr, 1, i - 1) \o SubSeq(arr, i + 1, Len(arr)),
                       doomed, i)
       ELSE spliceLoop(arr, doomed, i + 1)

\* withText on every vertex and every edge.
withTextOnAll(s, o, t) ==
  [s EXCEPT !.V = [i \in DOMAIN s.V |-> [s.V[i] EXCEPT !.text = t]],
            !.E = [i \in DOMAIN s.E |-> [s.E[i] EXCEPT !.text = t]]]

\* The label of the selected object, and the state with it replaced.
textOf(s, o) == IF isVertex(o) THEN s.V[o.id].text ELSE s.E[o.id].text
withText(s, o, t) ==
  IF isVertex(o) THEN [s EXCEPT !.V[o.id].text = t]
  ELSE [s EXCEPT !.E[o.id].text = t]

\* onmousedown keeping the selection when the pointer is on empty space.
onmousedownKeepingSelection(s, mouse) ==
  LET hit == selectObject(s, mouse.x, mouse.y)
      sel == IF hit = NULL THEN s.selectedObject ELSE hit
      s1 == [s EXCEPT !.selectedObject = sel]
      s2 == IF hit # NULL /\ isVertex(hit)
            THEN IF s.shift /\ s.currentEdge = NULL
                 THEN [s1 EXCEPT !.currentEdge = TempEdge(hit.id, mouse)]
                 ELSE IF s.ctrl /\ s.currentEdge = NULL
                 THEN [s1 EXCEPT !.currentEdge = TempDirEdge(hit.id, mouse)]
                 ELSE [s1 EXCEPT !.movingObject = TRUE,
                                 !.V[hit.id] = setStartPoint(s.V[hit.id], mouse.x, mouse.y)]
            ELSE s1
  IN [s2 EXCEPT !.mouseDown = TRUE]

\* ---------------------------------------------------------------- handlers
\* canvas.onmousedown
onmousedown(s, mouse) ==
  LET sel == selectObject(s, mouse.x, mouse.y)
      s1 == [s EXCEPT !.selectedObject = sel]
      s2 == IF sel # NULL /\ isVertex(sel)
            THEN IF s.shift /\ s.currentEdge = NULL
                 THEN [s1 EXCEPT !.currentEdge = TempEdge(sel.id, mouse)]
                 ELSE IF s.ctrl /\ s.currentEdge = NULL
                 THEN [s1 EXCEPT !.currentEdge = TempDirEdge(sel.id, mouse)]
                 ELSE [s1 EXCEPT !.movingObject = TRUE,
                                 !.V[sel.id] = setStartPoint(s.V[sel.id], mouse.x, mouse.y)]
            ELSE s1
  IN [s2 EXCEPT !.mouseDown = TRUE]

\* onmouseup storing the candidate and leaving it under construction.
onmouseupKeepingCandidate(s) ==
  LET s1 == [s EXCEPT !.movingObject = FALSE]
      s2 == IF isTemp(s.currentEdge)
            THEN [s1 EXCEPT !.currentEdge = NULL]
            ELSE IF isStored(s.currentEdge)
            THEN LET id == FreshE(s)
                     s3 == IF ~containsEdge(s, s.currentEdge)
                           THEN [s1 EXCEPT !.E = (id :> s.currentEdge) @@ s.E,
                                           !.edges = Append(s.edges, id)]
                           ELSE s1
                 IN [s3 EXCEPT !.lastKey = NoKey]
            ELSE s1
  IN [s2 EXCEPT !.mouseDown = FALSE]

\* onmouseup leaving a pending edge in place.
onmouseupKeepingPending(s) ==
  LET s1 == [s EXCEPT !.movingObject = FALSE]
      s2 == IF isStored(s.currentEdge)
            THEN LET id == FreshE(s)
                     s3 == IF ~containsEdge(s, s.currentEdge)
                           THEN [s1 EXCEPT !.E = (id :> s.currentEdge) @@ s.E,
                                           !.edges = Append(s.edges, id)]
                           ELSE s1
                 IN [s3 EXCEPT !.currentEdge = NULL, !.lastKey = NoKey]
            ELSE s1
  IN [s2 EXCEPT !.mouseDown = FALSE]

\* canvas.onmouseup
onmouseup(s) ==
  LET s1 == [s EXCEPT !.movingObject = FALSE]
      s2 == IF isTemp(s.currentEdge)
            THEN [s1 EXCEPT !.currentEdge = NULL]
            ELSE IF isStored(s.currentEdge)
            THEN LET id == FreshE(s)
                     s3 == IF ~containsEdge(s, s.currentEdge)
                           THEN [s1 EXCEPT !.E = (id :> s.currentEdge) @@ s.E,
                                           !.edges = Append(s.edges, id)]
                           ELSE s1
                 IN [s3 EXCEPT !.currentEdge = NULL, !.lastKey = NoKey]
            ELSE s1
  IN [s2 EXCEPT !.mouseDown = FALSE]

\* The vertex under the pointer while an edge is being created (destVertex
\* after the instanceof test), NULL otherwise.
destVertexAt(s, mouse) ==
  LET d == selectObject(s, mouse.x, mouse.y) IN
  IF d # NULL /\ isVertex(d) THEN d ELSE NULL

\* rebuildEdge with the ends of the candidate exchanged.
rebuildEdgeReversed(s, mouse) ==
  IF s.currentEdge # NULL /\ s.selectedObject # NULL /\ isVertex(s.selectedObject)
  THEN LET destVertex == destVertexAt(s, mouse)
           src == s.selectedObject.id
       IN IF destVertex = NULL
          THEN IF s.lastKey = SHIFT
               THEN [s EXCEPT !.currentEdge = TempEdge(src, mouse)]
               ELSE IF s.lastKey = CTRL
               THEN [s EXCEPT !.currentEdge = TempDirEdge(src, mouse)]
               ELSE s
          ELSE IF s.lastKey = SHIFT
               THEN [s EXCEPT !.currentEdge = Edge(destVertex.id, src)]
               ELSE IF s.lastKey = CTRL
               THEN [s EXCEPT !.currentEdge = DirEdge(destVertex.id, src)]
               ELSE s
  ELSE s

\* canvas.onmousemove, lines 171-208: the edge under construction is rebuilt.
rebuildEdge(s, mouse) ==
  IF s.currentEdge # NULL /\ s.selectedObject # NULL /\ isVertex(s.selectedObject)
  THEN LET destVertex == destVertexAt(s, mouse)
           src == s.selectedObject.id
       IN IF destVertex = NULL
          THEN IF s.lastKey = SHIFT
               THEN [s EXCEPT !.currentEdge = TempEdge(src, mouse)]
               ELSE IF s.lastKey = CTRL
               THEN [s EXCEPT !.currentEdge = TempDirEdge(src, mouse)]
               ELSE s
          ELSE IF s.lastKey = SHIFT
               THEN [s EXCEPT !.currentEdge = Edge(src, destVertex.id)]
               ELSE IF s.lastKey = CTRL
               THEN [s EXCEPT !.currentEdge = DirEdge(src, destVertex.id)]
               ELSE s
  ELSE s

\* canvas.onmousemove
onmousemove(s, mouse) ==
  LET s1 == rebuildEdge(s, mouse) IN
  IF s1.movingObject
  THEN IF s1.selectedObject # NULL /\ isVertex(s1.selectedObject)
       THEN LET id == s1.selectedObject.id
                s2 == [s1 EXCEPT !.V[id] = setAnchorPoint(s1.V[id], mouse.x, mouse.y)]
            IN draw(snap(s2, id))
       \* selectedObject.setAnchorPoint on null, or on an edge
       ELSE [s1 EXCEPT !.thrown = "TypeError"]
  ELSE draw(s1)

\* ondblclick creating a vertex whatever is under the pointer.
ondblclickAlways(s, mouse) ==
  LET id == FreshV(s) IN
  draw([s EXCEPT !.selectedObject = VRef(id),
                 !.V = (id :> Vertex(mouse.x, mouse.y)) @@ s.V,
                 !.vertices = Append(s.vertices, id)])

\* canvas.ondblclick
ondblclick(s, mouse) ==
  LET sel == selectObject(s, mouse.x, mouse.y) IN
  IF sel = NULL
  THEN LET id == FreshV(s) IN
       draw([s EXCEPT !.selectedObject = VRef(id),
                      !.V = (id :> Vertex(mouse.x, mouse.y)) @@ s.V,
                      !.vertices = Append(s.vertices, id)])
  ELSE [s EXCEPT !.selectedObject = sel]

\* deleteSelected leaving the selection on the entity deleted.
deleteSelectedKeepingSelection(s) ==
  LET o == s.selectedObject
      doomedV == IF isVertex(o) THEN {o.id} ELSE {}
      doomedE == {e \in Range(s.edges) :
                    \/ ERef(e) = o
                    \/ VRef(s.E[e].v1) = o
                    \/ VRef(s.E[e].v2) = o}
  IN draw([s EXCEPT !.vertices = spliceLoop(s.vertices, doomedV, 1),
                    !.edges = spliceLoop(s.edges, doomedE, 1)])

\* The Delete branch of document.onkeydown, lines 261-280.
deleteSelected(s) ==
  LET o == s.selectedObject
      doomedV == IF isVertex(o) THEN {o.id} ELSE {}
      doomedE == {e \in Range(s.edges) :
                    \/ ERef(e) = o
                    \/ VRef(s.E[e].v1) = o
                    \/ VRef(s.E[e].v2) = o}
  IN draw([s EXCEPT !.vertices = spliceLoop(s.vertices, doomedV, 1),
                    !.edges = spliceLoop(s.edges, doomedE, 1),
                    !.selectedObject = NULL])

\* document.onkeydown
onkeydown(s, key) ==
  LET s1 == IF ~s.mouseDown THEN [s EXCEPT !.lastKey = key] ELSE s IN
  IF key = SHIFT THEN [s1 EXCEPT !.shift = TRUE]
  ELSE IF key = CTRL THEN [s1 EXCEPT !.ctrl = TRUE]
  ELSE IF s1.selectedObject # NULL
  THEN IF key = BACKSPACE
       THEN LET t == textOf(s1, s1.selectedObject) IN
            draw(withText(s1, s1.selectedObject, SubSeq(t, 1, Len(t) - 1)))
       ELSE IF key = DELETE THEN deleteSelected(s1)
       ELSE s1
  ELSE s1

\* document.onkeyup
onkeyup(s, key) ==
  IF key = SHIFT THEN [s EXCEPT !.shift = FALSE]
  ELSE IF key = CTRL THEN [s EXCEPT !.ctrl = FALSE]
  ELSE s

\* document.onkeypress (canvasHasFocus, a function, is always truthy)
onkeypress(s, key) ==
  IF s.selectedObject # NULL /\ key >= 32 /\ key <= 126
  THEN draw(withText(s, s.selectedObject,
                     Append(textOf(s, s.selectedObject), key)))
  ELSE s

\* LaTeXDrawer.advancedFillText reads the undeclared name angleOrNull when
\* the text is not blank and an angle is given: a ReferenceError. Edge.draw
\* and DirEdge.draw always give an angle, Vertex.draw gives null.
advancedFillTextThrows(oldText, angleGiven) ==
  /\ Len(removeFirstSpace(makeSubscripts(oldText), 1)) > 0
  /\ angleGiven

\* drawWith(latex) ends with an exception: some stored edge has a label to draw.
drawWithLaTeXThrows(s) ==
  \E i \in 1..Len(s.edges) : advancedFillTextThrows(s.E[s.edges[i]].text, TRUE)

\* saveAsLaTeX: the vertices are drawn (first), then the edges; the selection
\* is put back, and the document written to the output box, only when
\* drawWith returns.
saveAsLaTeX(s) ==
  LET old == s.selectedObject
      s1 == drawWith([s EXCEPT !.selectedObject = NULL])
  IN IF drawWithLaTeXThrows(s1)
     THEN [s1 EXCEPT !.thrown = "ReferenceError"]
     ELSE [s1 EXCEPT !.selectedObject = old,
                     !.output = toLaTeXCode(primitives(s1, "latex"))]

\* ------------------------------------------------------------ object heaps
\* Objects nothing refers to any more are dropped from the heaps, and the
\* identities are renumbered: the i-th stored vertex (edge) is i, the objects
\* referred to from elsewhere only come after them.
liveE(s) ==
  Range(s.edges) \cup
  (IF s.selectedObject.type = "Edge" THEN {s.selectedObject.id} ELSE {})

liveV(s) ==
  Range(s.vertices)
  \cup {s.E[e].v1 : e \in liveE(s)} \cup {s.E[e].v2 : e \in liveE(s)}
  \cup (IF isVertex(s.selectedObject) THEN {s.selectedObject.id} ELSE {})
  \cup (IF isTemp(s.currentEdge) THEN {s.currentEdge.vertex} ELSE {})
  \cup (IF isStored(s.currentEdge) THEN {s.currentEdge.v1, s.currentEdge.v2} ELSE {})

RECURSIVE Sorted(_)
Sorted(S) == IF S = {} THEN <<>> ELSE <<Min(S)>> \o Sorted(S \ {Min(S)})

IndexOf(seq, x) == CHOOSE i \in 1..Len(seq) : seq[i] = x

renumbered(r) ==
  \* (the handler's result, evaluated once)
  LET s == CHOOSE x \in {r} : TRUE
      ordV == s.vertices \o Sorted(liveV(s) \ Range(s.vertices))
      ordE == s.edges \o Sorted(liveE(s) \ Range(s.edges))
      refOf(o) == IF o.type = "Vertex" THEN VRef(IndexOf(ordV, o.id))
                  ELSE IF o.type = "Edge" THEN ERef(IndexOf(ordE, o.id))
                  ELSE o
      edgeOf(e) == IF isTemp(e) THEN [e EXCEPT !.vertex = IndexOf(ordV, @)]
                   ELSE IF isStored(e)
                   THEN [e EXCEPT !.v1 = IndexOf(ordV, @), !.v2 = IndexOf(ordV, @)]
                   ELSE e
  IN [s EXCEPT !.vertices = [i \in 1..Len(s.vertices) |-> i],
               !.edges = [i \in 1..Len(s.edges) |-> i],
               !.V = [i \in 1..Len(ordV) |-> s.V[ordV[i]]],
               !.E = [i \in 1..Len(ordE) |-> edgeOf(s.E[ordE[i]])],
               !.selectedObject = refOf(s.selectedObject),
               !.currentEdge = edgeOf(s.currentEdge)]

RECURSIVE SumLen(_)
SumLen(texts) ==
  IF texts = <<>> THEN 0 ELSE Len(Head(texts)) + SumLen(Tail(texts))

textTyped(s) ==
  SumLen([i \in 1..Len(s.V) |-> s.V[i].text]) + SumLen([i \in 1..Len(s.E) |-> s.E[i].text])

\* The part of the state space explored: the sizes of the scope, and the
\* places a vertex may be created on or dragged to.
withinScope(s) ==
  /\ Len(s.V) <= scope.maxVertices
  /\ Len(s.edges) <= scope.maxEdges
  /\ textTyped(s) <= scope.maxText
  /\ \A i \in 1..Len(s.V) : Pt(s.V[i].x, s.V[i].y) \in scope.places

Event(op, arg) == [op |-> op, arg |-> arg]

A == Pt(50, 50)
B == Pt(200, 50)
\* the midpoint of A and B
M == Pt(125, 50)
C == Pt(125, 180)

\* The scenario of section 8: two double-clicks (each with the two clicks the
\* browser delivers before it), a shift-drag from the first vertex to the
\* second, a click on the edge, Delete.
Scenario ==
  << Event("mousedown", A), Event("mouseup", NULL),
     Event("mousedown", A), Event("mouseup", NULL), Event("dblclick", A),
     Event("mousedown", B), Event("mouseup", NULL),
     Event("mousedown", B), Event("mouseup", NULL), Event("dblclick", B),
     Event("keydown", SHIFT),
     Event("mousedown", A), Event("mousemove", B), Event("mouseup", NULL),
     Event("mousedown", M), Event("mouseup", NULL),
     Event("keydown", DELETE) >>

\* The handler's result becomes the next state; emitted is what the handler
\* drew (on the canvas, or as the document in the output box), last notes the
\* event (its handler, what it did, a number that goes with it, and where
\* the pointer was for a press, a double-click and a move that drags), and
\* scenario how many events of Scenario the events so far are (-1: not it).
Becomes(r, ev, note, n) ==
  \E s \in {renumbered(r)} :
  /\ withinScope(s)
  /\ vertices' = s.vertices
  /\ edges' = s.edges
  /\ V' = s.V
  /\ E' = s.E
  /\ selectedObject' = s.selectedObject
  /\ currentEdge' = s.currentEdge
  /\ movingObject' = s.movingObject
  /\ lastKey' = s.lastKey
  /\ shift' = s.shift
  /\ ctrl' = s.ctrl
  /\ mouseDown' = s.mouseDown
  /\ thrown' = s.thrown
  /\ emitted' = IF s.output # <<>> THEN [surface |-> "latex", doc |-> s.output]
                ELSE IF s.drawn
                THEN [surface |-> "canvas", doc |-> primitives(s, "canvas")]
                ELSE [surface |-> "none", doc |-> <<>>]
  /\ last' = [op |-> ev.op, note |-> note, n |-> n,
              at |-> IF \/ ev.op \in {"mousedown", "dblclick"}
                        \/ ev.op = "mousemove" /\ movingObject
                     THEN ev.arg ELSE NULL]
  /\ scenario' = IF /\ scenario >= 0
                    /\ scenario < Len(Scenario)
                    /\ Scenario[scenario + 1] = ev
                 THEN scenario + 1 ELSE -1
  /\ UNCHANGED scope

\* ------------------------------------------------------------------- scopes
\* Sizes of the scopes: vertex objects alive at once, stored edges, and
\* characters typed into labels over the whole scene.
GestureVertices == 2
GestureEdges == 1
PairsEdges == 2
LabelsText == 1
TypingText == 2

Scopes ==
  { [name |-> "gesture", points |-> {A, M, B}, places |-> {A, B},
     keys |-> {SHIFT, CTRL, DELETE}, chars |-> {}, export |-> FALSE,
     maxVertices |-> GestureVertices, maxEdges |-> GestureEdges, maxText |-> 0,
     anyOrder |-> FALSE],
    [name |-> "pairs", points |-> {A, M, B}, places |-> {A, B},
     keys |-> {SHIFT, DELETE}, chars |-> {}, export |-> FALSE,
     maxVertices |-> GestureVertices, maxEdges |-> PairsEdges, maxText |-> 0,
     anyOrder |-> FALSE],
    [name |-> "labels", points |-> {A, M, B}, places |-> {A, B},
     keys |-> {SHIFT, BACKSPACE, DELETE}, chars |-> {97, BACKSPACE}, export |-> TRUE,
     maxVertices |-> GestureVertices, maxEdges |-> GestureEdges, maxText |-> LabelsText,
     anyOrder |-> FALSE],
    \* the ends of the range of printable characters, and their neighbours
    [name |-> "typing", points |-> {A, M, B}, places |-> {A, B},
     keys |-> {BACKSPACE, DELETE}, chars |-> {31, 32, 126, 127}, export |-> FALSE,
     maxVertices |-> GestureVertices, maxEdges |-> 0, maxText |-> TypingText,
     anyOrder |-> FALSE],
    \* presses and releases in any order
    [name |-> "freehand", points |-> {A, M, B}, places |-> {A, B},
     keys |-> {SHIFT}, chars |-> {}, export |-> FALSE,
     maxVertices |-> GestureVertices, maxEdges |-> GestureEdges, maxText |-> 0,
     anyOrder |-> TRUE] }

\* ------------------------------------------------------------------ actions
Init ==
  /\ scope \in Scopes
  /\ vertices = <<>>
  /\ edges = <<>>
  /\ V = <<>>
  /\ E = <<>>
  /\ selectedObject = NULL
  /\ currentEdge = NULL
  /\ movingObject = FALSE
  /\ lastKey = NoKey
  /\ shift = FALSE
  /\ ctrl = FALSE
  /\ mouseDown = FALSE
  /\ thrown = "none"
  /\ emitted = [surface |-> "none", doc |-> <<>>]
  /\ last = [op |-> "load", note |-> "none", n |-> 0, at |-> NULL]
  /\ scenario = 0

\* With anyOrder the pointer may be pressed or released off the canvas, and a
\* second button pressed while one is down, so that presses and releases
\* reach the canvas in any order.
MouseDown ==
  /\ scope.anyOrder \/ ~mouseDown
  /\ \E p \in scope.points :
        Becomes(onmousedown(Cur, p), Event("mousedown", p), "none", 0)

\* The release notes what became of the edge under construction, and with 1
\* that the candidate joins two vertices a stored edge joins the other way.
MouseUp ==
  /\ scope.anyOrder \/ mouseDown
  /\ Becomes(onmouseup(Cur), Event("mouseup", NULL),
             IF isTemp(currentEdge) THEN "discarded"
             ELSE IF ~isStored(currentEdge) THEN "none"
             ELSE IF containsEdge(Cur, currentEdge) THEN "dropped"
             ELSE "committed",
             IF /\ isStored(currentEdge)
                /\ currentEdge.v1 # currentEdge.v2
                /\ \E i \in 1..Len(edges) :
                      /\ E[edges[i]].v1 = currentEdge.v2
                      /\ E[edges[i]].v2 = currentEdge.v1
             THEN 1 ELSE 0)

\* The move notes the vertex under the pointer while an edge is being created.
MouseMove ==
  \E p \in scope.points :
     Becomes(onmousemove(Cur, p), Event("mousemove", p), "none",
             IF currentEdge # NULL /\ destVertexAt(Cur, p) # NULL
             THEN destVertexAt(Cur, p).id ELSE 0)

DblClick ==
  /\ scope.anyOrder \/ ~mouseDown
  /\ \E p \in scope.points :
        Becomes(ondblclick(Cur, p), Event("dblclick", p), "none", 0)

\* Delete notes what it deleted and how many edges went with it; Delete with
\* nothing selected and Backspace are noted too.
KeyDown ==
  \E k \in scope.keys :
     Becomes(onkeydown(Cur, k), Event("keydown", k),
             IF k = DELETE /\ selectedObject # NULL
             THEN (IF isVertex(selectedObject) THEN "vertex deleted" ELSE "edge deleted")
             ELSE IF k = DELETE THEN "delete"
             ELSE IF k = BACKSPACE THEN "backspace"
             ELSE "none",
             IF k = DELETE /\ selectedObject # NULL
             THEN Len(edges) - Len(onkeydown(Cur, k).edges) ELSE 0)

KeyUp ==
  \E k \in scope.keys :
     Becomes(onkeyup(Cur, k), Event("keyup", k), "none", 0)

\* The key press notes the character.
KeyPress ==
  \E k \in scope.chars :
     Becomes(onkeypress(Cur, k), Event("keypress", k), "none", k)

SaveAsLaTeX ==
  /\ scope.export
  /\ Becomes(saveAsLaTeX(Cur), Event("saveAsLaTeX", NULL), "none", 0)

Next ==
  \/ MouseDown
  \/ MouseUp
  \/ MouseMove
  \/ DblClick
  \/ KeyDown
  \/ KeyUp
  \/ KeyPress
  \/ SaveAsLaTeX

Spec == Init /\ [][Next]_vars

\* -------------------------------------------------- deletion in full scenes
\* Scenes of three vertices, at A, B and C, joined by up to CascadeEdges edges
\* of either kind and direction in any order, no two between the same pair of
\* vertices: what connect gestures build. Vertices are selected by a press and
\* deleted.
CascadeVertices == 3
CascadeEdges == 3

CascadeScope ==
  [name |-> "cascade", points |-> {A, B, C}, places |-> {A, B, C},
   keys |-> {DELETE}, chars |-> {}, export |-> FALSE,
   maxVertices |-> CascadeVertices, maxEdges |-> CascadeEdges, maxText |-> 0,
   anyOrder |-> FALSE]

CascadeEdgeChoices ==
  {Edge(a, b) : a, b \in 1..3} \cup {DirEdge(a, b) : a, b \in 1..3}

CascadeScenes ==
  {q \in UNION {[1..n -> {e \in CascadeEdgeChoices : e.v1 # e.v2}] : n \in 0..CascadeEdges} :
     \A i, j \in 1..Len(q) :
        i # j => {q[i].v1, q[i].v2} # {q[j].v1, q[j].v2}}

CascadeInit ==
  /\ scope = CascadeScope
  /\ vertices = <<1, 2, 3>>
  /\ V = <<Vertex(A.x, A.y), Vertex(B.x, B.y), Vertex(C.x, C.y)>>
  /\ E \in CascadeScenes
  /\ edges = [i \in 1..Len(E) |-> i]
  /\ selectedObject = NULL
  /\ currentEdge = NULL
  /\ movingObject = FALSE
  /\ lastKey = NoKey
  /\ shift = FALSE
  /\ ctrl = FALSE
  /\ mouseDown = FALSE
  /\ thrown = "none"
  /\ emitted = [surface |-> "none", doc |-> <<>>]
  /\ last = [op |-> "load", note |-> "none", n |-> 0, at |-> NULL]
  /\ scenario = -1

CascadeNext ==
  \/ MouseDown
  \/ MouseUp
  \/ KeyDown

SpecCascade == CascadeInit /\ [][CascadeNext]_vars

\* ------------------------------------------------------ crowded scenes
\* Scenes where entities overlap: vertices at A, at B and at B2, ten below B
\* (where a drag can leave one), in any order of insertion, joined by up to
\* CrowdEdges edges in any order. B and B2 overlap, the edge from A to B2
\* runs within EDGE_MARGIN of the edge from A to B, and the edge from B to B2
\* lies inside both. The pointer is pressed on A, between B and B2, between
\* the two long edges, and on empty space; entities are deleted.
B2 == Pt(200, 60)
BetweenVertices == Pt(200, 55)
BetweenEdges == Pt(125, 55)

CrowdVertices == 3
CrowdEdges == 3

CrowdScope ==
  [name |-> "crowd", points |-> {A, BetweenVertices, BetweenEdges, C},
   places |-> {A, B, B2},
   keys |-> {DELETE}, chars |-> {}, export |-> FALSE,
   maxVertices |-> CrowdVertices, maxEdges |-> CrowdEdges, maxText |-> 0,
   anyOrder |-> FALSE]

CrowdOrders ==
  {q \in [1..3 -> {A, B, B2}] : \A i, j \in 1..3 : i # j => q[i] # q[j]}

CrowdInit ==
  /\ scope = CrowdScope
  /\ vertices = <<1, 2, 3>>
  /\ \E q \in CrowdOrders : V = [i \in 1..3 |-> Vertex(q[i].x, q[i].y)]
  /\ E \in CascadeScenes
  /\ edges = [i \in 1..Len(E) |-> i]
  /\ selectedObject = NULL
  /\ currentEdge = NULL
  /\ movingObject = FALSE
  /\ lastKey = NoKey
  /\ shift = FALSE
  /\ ctrl = FALSE
  /\ mouseDown = FALSE
  /\ thrown = "none"
  /\ emitted = [surface |-> "none", doc |-> <<>>]
  /\ last = [op |-> "load", note |-> "none", n |-> 0, at |-> NULL]
  /\ scenario = -1

CrowdNext ==
  \/ MouseDown
  \/ MouseUp
  \/ KeyDown

SpecCrowd == CrowdInit /\ [][CrowdNext]_vars

\* ---------------------------------------------------------------- dragging
\* Scenes for dragging: a vertex at Dragged, with or without vertices at
\* Left (x = 100) and Right (x = 108) to align with, in any order of
\* insertion. The dragged vertex is pressed at its centre or five to the
\* right of it, and the pointer moved so that the vertex is taken next to
\* the others: just out of the margin, within the margin of one, of both, and
\* far from both, on either axis.
Left == Pt(100, 100)
Right == Pt(108, 400)
Dragged == Pt(300, 200)

DragVertices == 3

DragPointer ==
  {Pt(300, 200), Pt(305, 200),
   Pt(95, 250), Pt(96, 250), Pt(109, 250), Pt(122, 250), Pt(205, 250),
   Pt(205, 105), Pt(205, 115)}

DragScope ==
  [name |-> "drag", points |-> DragPointer,
   places |-> [x : {90, 91, 95, 96, 100, 101, 104, 108, 109, 114, 117, 122, 200, 205, 300},
               y : {100, 105, 115, 200, 250, 400}],
   keys |-> {}, chars |-> {}, export |-> FALSE,
   maxVertices |-> DragVertices, maxEdges |-> 0, maxText |-> 0,
   anyOrder |-> FALSE]

DragScenes ==
  {q \in UNION {[1..n -> {Left, Right, Dragged}] : n \in 1..DragVertices} :
     /\ \E i \in 1..Len(q) : q[i] = Dragged
     /\ \A i, j \in 1..Len(q) : i # j => q[i] # q[j]}

DragInit ==
  /\ scope = DragScope
  /\ \E q \in DragScenes :
        /\ vertices = [i \in 1..Len(q) |-> i]
        /\ V = [i \in 1..Len(q) |-> Vertex(q[i].x, q[i].y)]
  /\ edges = <<>>
  /\ E = <<>>
  /\ selectedObject = NULL
  /\ currentEdge = NULL
  /\ movingObject = FALSE
  /\ lastKey = NoKey
  /\ shift = FALSE
  /\ ctrl = FALSE
  /\ mouseDown = FALSE
  /\ thrown = "none"
  /\ emitted = [surface |-> "none", doc |-> <<>>]
  /\ last = [op |-> "load", note |-> "none", n |-> 0, at |-> NULL]
  /\ scenario = -1

DragNext ==
  \/ MouseDown
  \/ MouseMove
  \/ MouseUp

SpecDrag == DragInit /\ [][DragNext]_vars

\* ------------------------------------------------------------------ labels
\* Scenes for the label transforms: one vertex, at A, selected, whose label
\* is any text of up to SubscriptLength characters among "_", "1" and "2",
\* or the text "x_12_y". The pointer moves (the canvas is redrawn) and the
\* markup is exported.
SubscriptLength == 8

SubscriptLabels ==
  UNION {[1..n -> {UNDERSCORE, 49, 50}] : n \in 0..SubscriptLength}
  \cup {<<120, UNDERSCORE, 49, 50, UNDERSCORE, 121>>}

SubscriptScope ==
  [name |-> "subscripts", points |-> {C}, places |-> {A},
   keys |-> {}, chars |-> {}, export |-> TRUE,
   maxVertices |-> 1, maxEdges |-> 0, maxText |-> SubscriptLength,
   anyOrder |-> FALSE]

SubscriptInit ==
  /\ scope = SubscriptScope
  /\ vertices = <<1>>
  /\ \E l \in SubscriptLabels :
        V = <<VertexDrawn([Vertex(A.x, A.y) EXCEPT !.text = l])>>
  /\ edges = <<>>
  /\ E = <<>>
  /\ selectedObject = VRef(1)
  /\ currentEdge = NULL
  /\ movingObject = FALSE
  /\ lastKey = NoKey
  /\ shift = FALSE
  /\ ctrl = FALSE
  /\ mouseDown = FALSE
  /\ thrown = "none"
  /\ emitted = [surface |-> "none", doc |-> <<>>]
  /\ last = [op |-> "load", note |-> "none", n |-> 0, at |-> NULL]
  /\ scenario = -1

SubscriptNext ==
  \/ MouseMove
  \/ SaveAsLaTeX

SpecSubscripts == SubscriptInit /\ [][SubscriptNext]_vars

\* ------------------------------------------------------------------- claims
idle == ~movingObject /\ currentEdge = NULL
directed(e) == e.kind \in {"DirEdge", "TempDirEdge"}
stored(v) == v \in Range(vertices)

\* Some stored edge joins a and b, in either direction, of either kind.
joined(a, b) ==
  \E i \in 1..Len(edges) :
     {E[edges[i]].v1, E[edges[i]].v2} = {a, b}

uniquePairs ==
  \A i, j \in 1..Len(edges) :
     i # j => {E[edges[i]].v1, E[edges[i]].v2} # {E[edges[j]].v1, E[edges[j]].v2}

\* C1: the edge collection never holds two edges for one unordered pair of
\* vertices, and a release whose candidate joins a pair already joined (in
\* either direction, by either kind) leaves the collection and its edges
\* (kind, label, order) as they were.
C1_OneEdgePerPair ==
  /\ uniquePairs
  /\ [][/\ uniquePairs'
        /\ (/\ last'.op = "mouseup"
            /\ isStored(currentEdge)
            /\ joined(currentEdge.v1, currentEdge.v2))
           => (edges' = edges /\ E' = E)]_vars

\* C1, the case: a candidate from B to A has just been dropped because an
\* edge from A to B is stored.
C1_Witness ==
  /\ last.op = "mouseup"
  /\ last.note = "dropped"
  /\ last.n = 1
  /\ Len(edges) >= 1

\* A vertex as the scene shows it, and an edge by what it joins.
shown(v) == [x |-> v.x, y |-> v.y, radius |-> v.radius, text |-> v.text]
joins(Vs, e) ==
  [kind |-> e.kind, v1 |-> shown(Vs[e.v1]), v2 |-> shown(Vs[e.v2]), text |-> e.text]

\* C2: Delete with a stored vertex selected removes that vertex and exactly
\* the edges it is an end of; the other vertices and the other edges stay, as
\* they were and in the order they were in.
C2_DeleteVertexCascades ==
  [][(/\ last'.op = "keydown"
      /\ last'.note = "vertex deleted"
      /\ stored(selectedObject.id))
     => LET k == selectedObject.id
            otherVertex(v) == v # k
            otherEdge(e) == E[e].v1 # k /\ E[e].v2 # k
            keptV == SelectSeq(vertices, otherVertex)
            keptE == SelectSeq(edges, otherEdge)
        IN /\ Len(vertices') = Len(vertices) - 1
           /\ Len(keptV) = Len(vertices')
           /\ \A i \in 1..Len(keptV) : shown(V'[vertices'[i]]) = shown(V[keptV[i]])
           /\ Len(edges') = Len(keptE)
           /\ \A i \in 1..Len(keptE) :
                 joins(V', E'[edges'[i]]) = joins(V, E[keptE[i]])]_vars

\* C2, the case: a vertex with two or more edges was deleted and an edge stays.
C2_Witness ==
  /\ last.op = "keydown"
  /\ last.note = "vertex deleted"
  /\ last.n >= 2
  /\ Len(edges) >= 1

\* C3: both endpoints of every stored edge are stored vertices (stated for
\* the edges between two vertices, which is enough to refute it).
C3_EndpointsStored ==
  \A i \in 1..Len(edges) :
     E[edges[i]].v1 # E[edges[i]].v2
     => stored(E[edges[i]].v1) /\ stored(E[edges[i]].v2)

\* C4: every stored edge joins two distinct vertices.
C4_NoSelfLoop ==
  \A i \in 1..Len(edges) : E[edges[i]].v1 # E[edges[i]].v2

\* The vertex the edge under construction starts from.
source(e) == IF isTemp(e) THEN e.vertex ELSE e.v1

\* C5: a connect gesture from a stored vertex a (the selection, which the edge
\* under construction starts from) whose last move was onto another stored
\* vertex b not joined to a commits, at the release, exactly one new edge,
\* last in the order, from a to b with an empty label, and leaves the
\* controller idle.
C5_GestureCommits ==
  [][(/\ last.op = "mousemove"
      /\ last.n # 0
      /\ currentEdge # NULL
      /\ selectedObject # NULL
      /\ isVertex(selectedObject)
      /\ source(currentEdge) = selectedObject.id
      /\ stored(selectedObject.id)
      /\ stored(last.n)
      /\ last.n # selectedObject.id
      /\ ~joined(selectedObject.id, last.n)
      /\ last'.op = "mouseup")
     => /\ Len(edges') = Len(edges) + 1
        /\ \A i \in 1..Len(edges) : edges'[i] = edges[i] /\ E'[edges[i]] = E[edges[i]]
        /\ E'[edges'[Len(edges')]].v1 = selectedObject.id
        /\ E'[edges'[Len(edges')]].v2 = last.n
        /\ E'[edges'[Len(edges')]].text = <<>>
        /\ idle']_vars

\* C6: the kind of the edge under construction never changes during a
\* gesture, and the edge committed has the kind of the candidate.
C6_KindFixed ==
  [][/\ (currentEdge # NULL /\ currentEdge' # NULL)
        => (directed(currentEdge') <=> directed(currentEdge))
     /\ (last'.op = "mouseup" /\ last'.note = "committed")
        => (directed(E'[edges'[Len(edges')]]) <=> directed(currentEdge))]_vars

\* C7: the scenario. After the two double-clicks there are two vertices, at
\* (50,50) and (200,50), with the default radius; after the shift-drag from
\* the first to the second there is exactly one edge, undirected, from vertex
\* 1 to vertex 2; the click on it selects it; Delete removes it and leaves
\* both vertices in place.
twoVertices ==
  /\ vertices = <<1, 2>>
  /\ V = <<Vertex(50, 50), Vertex(200, 50)>>

C7_Scenario ==
  /\ scenario = 5 => vertices = <<1>> /\ V = <<Vertex(50, 50)>> /\ edges = <<>>
  /\ scenario = 10 => twoVertices /\ edges = <<>>
  /\ scenario = 14 => twoVertices /\ edges = <<1>> /\ E = <<Edge(1, 2)>>
  /\ scenario = 15 => selectedObject = ERef(1)
  /\ scenario = 17 => twoVertices /\ edges = <<>> /\ E = <<>>

\* C7, the case: the whole scenario has been played.
C7_Witness == scenario = Len(Scenario)

\* C8: Delete with a selection removes the selected entity, clears the
\* selection and leaves the controller idle.
C8_DeleteReturnsToIdle ==
  [][(last'.op = "keydown" /\ last'.note \in {"vertex deleted", "edge deleted"})
     => /\ selectedObject' = NULL
        /\ Len(vertices') + Len(edges') < Len(vertices) + Len(edges)
        /\ idle']_vars

\* C9: no pointer or key handler ends with a runtime failure.
C9_HandlersTotal ==
  last.op \in {"mousedown", "mousemove", "mouseup", "dblclick",
               "keydown", "keyup", "keypress"}
  => thrown = "none"

\* C10: exporting markup leaves the vertices, the edges, their order, the
\* labels and the selection as they were, also when the surface fails.
C10_ExportChangesNothing ==
  [][last'.op = "saveAsLaTeX"
     => /\ vertices' = vertices
        /\ edges' = edges
        /\ V' = V
        /\ E' = E
        /\ selectedObject' = selectedObject]_vars

\* The scene as it shows: the vertices and the edges, in order, with their
\* labels.
sceneShown ==
  [vertices |-> [i \in 1..Len(vertices) |-> shown(V[vertices[i]])],
   edges |-> [i \in 1..Len(edges) |-> joins(V, E[edges[i]])]]

\* C11: with no edge under construction, saveAsLaTeX completes and writes
\* the document made of the prologue, the primitives of the vertices in
\* order, the primitives of the edges in order, and the epilogue.
C11_ExportDocument ==
  [][(last'.op = "saveAsLaTeX" /\ currentEdge = NULL)
     => /\ thrown' = "none"
        /\ emitted'.surface = "latex"
        /\ emitted'.doc = toLaTeXCode(verticesDrawn(Cur', "latex", 1)
                                      \o edgesDrawn(Cur', "latex", 1))]_vars

\* C12: a release while the edge under construction is a pending one (it
\* follows the pointer) leaves the vertices, the edges and the labels as
\* they were and empties the slot of the edge under construction.
C12_ReleaseDiscardsPending ==
  [][(isTemp(currentEdge) /\ last'.op = "mouseup")
     => sceneShown' = sceneShown /\ currentEdge' = NULL]_vars

\* C12, the case: a pending edge was released, in a scene with an edge.
C12_Witness ==
  /\ last.op = "mouseup"
  /\ last.note = "discarded"
  /\ Len(edges) >= 1

\* The scene but for the labels, and what the labels decide (the radius).
sceneFrame ==
  [vertices |-> [i \in 1..Len(vertices) |-> [x |-> V[vertices[i]].x, y |-> V[vertices[i]].y]],
   edges |-> [i \in 1..Len(edges) |->
                [kind |-> E[edges[i]].kind, v1 |-> E[edges[i]].v1, v2 |-> E[edges[i]].v2]]]

\* The labels of the scene, each entity under its reference.
labels ==
  [o \in {VRef(vertices[i]) : i \in 1..Len(vertices)}
         \cup {ERef(edges[i]) : i \in 1..Len(edges)} |->
     IF isVertex(o) THEN V[o.id].text ELSE E[o.id].text]

\* C13: with a selection, a key press of a printable character (32 to 126)
\* appends that character to the label of the selection, and Backspace cuts
\* the last character of it (nothing of an empty label); no other label and
\* neither collection changes. With no selection Delete, Backspace and key
\* presses leave the scene as it is.
C13_LabelEditing ==
  [][/\ (/\ last'.op = "keypress"
         /\ selectedObject # NULL
         /\ last'.n >= 32
         /\ last'.n <= 126)
        => /\ sceneFrame' = sceneFrame
           /\ labels' = [labels EXCEPT ![selectedObject] = Append(@, last'.n)]
     /\ (/\ last'.op = "keydown"
         /\ last'.note = "backspace"
         /\ selectedObject # NULL)
        => /\ sceneFrame' = sceneFrame
           /\ labels' = [labels EXCEPT ![selectedObject] =
                                        IF @ = <<>> THEN <<>>
                                        ELSE SubSeq(@, 1, Len(@) - 1)]
     /\ (/\ \/ last'.op = "keypress"
            \/ last'.op = "keydown" /\ last'.note \in {"backspace", "delete"}
         /\ selectedObject = NULL)
        => sceneShown' = sceneShown]_vars

\* C13, the case: a character was appended to a label that had one, with
\* another vertex in the scene.
C13_Witness ==
  /\ last.op = "keypress"
  /\ selectedObject # NULL
  /\ Len(labels[selectedObject]) = 2
  /\ Len(vertices) = 2

\* The controller: whether a vertex is being moved, and what kind of edge,
\* if any, is under construction.
controller ==
  [moving |-> movingObject,
   connecting |-> IF currentEdge = NULL THEN "none" ELSE currentEdge.kind,
   pressed |-> mouseDown]

\* C14: a double-click where the hit-test finds nothing appends one vertex,
\* at the point of the click, with an empty label and the default radius, and
\* selects it; a double-click on a vertex or an edge selects it and creates
\* nothing. The vertices there were, the edges and the controller stay.
C14_DoubleClick ==
  [][last'.op = "dblclick"
     => LET p == last'.at
            hit == selectObject(Cur, p.x, p.y)
            n == Len(vertices)
        IN /\ hit = NULL
              => /\ Len(vertices') = n + 1
                 /\ shown(V'[vertices'[n + 1]])
                      = [x |-> p.x, y |-> p.y, radius |-> VERTEX_RADIUS, text |-> <<>>]
                 /\ selectedObject' = VRef(vertices'[n + 1])
           /\ hit # NULL
              => /\ Len(vertices') = n
                 /\ selectedObject' = hit
           /\ \A i \in 1..n : shown(V'[vertices'[i]]) = shown(V[vertices[i]])
           /\ sceneShown'.edges = sceneShown.edges
           /\ controller' = controller]_vars

\* C14, the case: a double-click on empty space created the second vertex.
C14_Witness ==
  /\ last.op = "dblclick"
  /\ emitted.surface = "canvas"
  /\ Len(vertices) = 2
  /\ selectedObject = VRef(2)
  /\ last.at = [x |-> V[2].x, y |-> V[2].y]

\* The entity the hit-test is to return at p: the first vertex containing p;
\* if there is none, the first edge containing p; if there is none, none.
winner(s, p) ==
  LET inV == {i \in 1..Len(s.vertices) : VertexContains(s.V[s.vertices[i]], p.x, p.y)}
      inE == {i \in 1..Len(s.edges) :
                EdgeContains(s.V[s.E[s.edges[i]].v1], s.V[s.E[s.edges[i]].v2], p.x, p.y)}
  IN IF inV # {} THEN VRef(s.vertices[Min(inV)])
     ELSE IF inE # {} THEN ERef(s.edges[Min(inE)])
     ELSE NULL

\* An entity by what it shows.
described(s, o) ==
  IF o = NULL THEN NULL
  ELSE IF isVertex(o) THEN shown(s.V[o.id])
  ELSE joins(s.V, s.E[o.id])

\* Delete with o selected removes entity w.
removedWith(s, o, w) ==
  \/ w = o
  \/ /\ isVertex(o)
     /\ w.type = "Edge"
     /\ o.id \in {s.E[w.id].v1, s.E[w.id].v2}

\* C15: a press selects the first vertex under the pointer, if there is none
\* the first edge under it, else nothing; under a vertex no edge is selected;
\* and after a deletion the hit-test finds, at every point, the entity it
\* found before unless that entity was deleted.
C15_HitTestOrder ==
  [][/\ last'.op = "mousedown"
        => /\ selectedObject' = winner(Cur, last'.at)
           /\ (\E i \in 1..Len(vertices) :
                  VertexContains(V[vertices[i]], last'.at.x, last'.at.y))
              => isVertex(selectedObject')
     /\ (last'.op = "keydown" /\ last'.note \in {"vertex deleted", "edge deleted"})
        => \A p \in scope.points :
              LET w == selectObject(Cur, p.x, p.y) IN
              (w = NULL \/ ~removedWith(Cur, selectedObject, w))
              => described(Cur', selectObject(Cur', p.x, p.y)) = described(Cur, w)]_vars

\* Edge i contains point p.
edgeUnder(i, p) ==
  EdgeContains(V[E[edges[i]].v1], V[E[edges[i]].v2], p.x, p.y)

\* C15, the case: the press between the two long edges selected the second
\* edge of three, the first not being under the pointer and the third being
\* under it too.
C15_Witness ==
  /\ last.op = "mousedown"
  /\ last.at = BetweenEdges
  /\ selectedObject = ERef(2)
  /\ Len(edges) = 3
  /\ ~edgeUnder(1, last.at)
  /\ edgeUnder(3, last.at)

\* Point p is farther than EDGE_MARGIN from the line through the centres of
\* a and b.
farFromLine(a, b, p) ==
  LET dx == b.x - a.x
      dy == b.y - a.y
      cross == dx * (p.y - a.y) - dy * (p.x - a.x)
  IN /\ dx * dx + dy * dy > 0
     /\ cross * cross > EDGE_MARGIN * EDGE_MARGIN * (dx * dx + dy * dy)

\* C16: every stored vertex contains its own centre; every stored edge
\* between two vertices contains the midpoint of their centres, and no point
\* farther than EDGE_MARGIN from the line through them.
C16_HitTestGeometry ==
  /\ \A i \in 1..Len(vertices) :
        VertexContains(V[vertices[i]], V[vertices[i]].x, V[vertices[i]].y)
  /\ \A i \in 1..Len(edges) :
        LET a == V[E[edges[i]].v1]
            b == V[E[edges[i]].v2]
        IN E[edges[i]].v1 # E[edges[i]].v2
           => /\ EdgeContainsHalf(a, b, a.x + b.x, a.y + b.y)
              /\ \A p \in scope.points :
                    farFromLine(a, b, p) => ~EdgeContains(a, b, p.x, p.y)

\* C17: a move while vertex d is dragged puts each coordinate of d at the
\* pointer plus the offset recorded at the press when no other vertex has
\* that coordinate within SNAP_MARGIN of it, and at that coordinate of some
\* other vertex otherwise. With the only other vertex at (100,100), the move
\* to (104,250) ends at (100,250).
C17_SnapPerAxis ==
  [][(/\ last'.op = "mousemove"
      /\ movingObject
      /\ selectedObject # NULL
      /\ isVertex(selectedObject))
     => LET d == selectedObject.id
            tx == last'.at.x + V[d].mouseOffsetX
            ty == last'.at.y + V[d].mouseOffsetY
            others == {vertices[i] : i \in 1..Len(vertices)} \ {d}
            nearX == {o \in others : Abs(V[o].x - tx) < SNAP_MARGIN}
            nearY == {o \in others : Abs(V[o].y - ty) < SNAP_MARGIN}
        IN /\ nearX = {} => V'[d].x = tx
           /\ nearX # {} => \E o \in others : V'[d].x = V[o].x
           /\ nearY = {} => V'[d].y = ty
           /\ nearY # {} => \E o \in others : V'[d].y = V[o].y
           /\ (/\ Len(vertices) = 2
               /\ \A o \in others : V[o].x = 100 /\ V[o].y = 100
               /\ tx = 104
               /\ ty = 250)
              => V'[d].x = 100 /\ V'[d].y = 250]_vars

\* C17, the case: the dragged vertex, pressed off its centre, was taken to
\* where its x is within the margin of both other vertices and its y of
\* none, and was aligned.
C17_Witness ==
  /\ last.op = "mousemove"
  /\ movingObject
  /\ Len(vertices) = 3
  /\ isVertex(selectedObject)
  /\ V[selectedObject.id].mouseOffsetX = -5
  /\ last.at = Pt(109, 250)
  /\ V[selectedObject.id].x \in {100, 108}
  /\ V[selectedObject.id].y = 250

asGlyphs(digits) == [k \in 1..Len(digits) |-> 8320 + (digits[k] - 48)]
asBraced(digits) == <<UNDERSCORE, 123>> \o digits \o <<125>>

\* A text with every run "_digits_", found from left to right, replaced by
\* the glyphs of the digits (on "canvas") or by the digits in braces (in
\* "latex"), and every other character left in place.
RECURSIVE withRuns(_, _, _)
withRuns(t, i, c) ==
  IF i > Len(t) THEN <<>>
  ELSE IF MatchAt(t, i) > 0
  THEN (IF c = "canvas"
        THEN asGlyphs(SubSeq(t, i + 1, i + MatchAt(t, i) - 2))
        ELSE asBraced(SubSeq(t, i + 1, i + MatchAt(t, i) - 2)))
       \o withRuns(t, i + MatchAt(t, i), c)
  ELSE <<t[i]>> \o withRuns(t, i + 1, c)

\* C18: the canvas receives the label with every run "_digits_" replaced by
\* the subscript glyphs of the digits, the markup receives it with every run
\* replaced by "_{digits}", everything else of the label in place; the
\* stored label stays as it is. "x_12_y" gives x, subscript 1, subscript 2,
\* y on the canvas and "x_{12}y" in the markup.
C18_Subscripts ==
  [][/\ labels' = labels
     /\ (emitted'.surface = "canvas" /\ vertices = <<1>> /\ edges = <<>>)
        => emitted'.doc[2].text = withRuns(V[1].text, 1, "canvas")
     /\ (emitted'.surface = "latex" /\ vertices = <<1>> /\ edges = <<>>
         /\ V[1].text # <<>> /\ 32 \notin Range(V[1].text))
        => emitted'.doc[5].text = withRuns(V[1].text, 1, "latex")
     /\ (emitted'.surface = "canvas" /\ vertices = <<1>> /\ edges = <<>>
         /\ V[1].text = <<120, UNDERSCORE, 49, 50, UNDERSCORE, 121>>)
        => emitted'.doc[2].text = <<120, 8321, 8322, 121>>
     /\ (emitted'.surface = "latex" /\ vertices = <<1>> /\ edges = <<>>
         /\ V[1].text = <<120, UNDERSCORE, 49, 50, UNDERSCORE, 121>>)
        => emitted'.doc[5].text = <<120, UNDERSCORE, 123, 49, 50, 125, 121>>]_vars

\* C19: a press at p selects what the hit-test finds at p (a vertex, an
\* edge, or nothing), whatever was selected, whatever modifiers are held and
\* whatever the controller is doing; it moves no vertex, changes no label
\* and neither collection.
C19_PressSelects ==
  [][last'.op = "mousedown"
     => /\ selectedObject' = winner(Cur, last'.at)
        /\ sceneShown' = sceneShown]_vars

\* C19, the case: a press on empty space, while an edge was under
\* construction from the selected vertex, cleared the selection.
C19_Witness ==
  /\ last.op = "mousedown"
  /\ selectedObject = NULL
  /\ currentEdge # NULL
  /\ Len(vertices) = 2

\* C20: whatever the order of the events, a vertex is never marked as moving
\* while an edge is under construction, and a moving vertex or an edge under
\* construction exists only while the pointer is recorded as pressed.
C20_OneGestureWhilePressed ==
  /\ ~(movingObject /\ currentEdge # NULL)
  /\ (movingObject \/ currentEdge # NULL) => mouseDown

\* C21: the selection is nothing, a vertex of the vertex collection or an
\* edge of the edge collection; never an entity that was deleted (by Delete
\* or with a vertex it was joined to), never the edge under construction.
C21_SelectionStored ==
  \/ selectedObject = NULL
  \/ /\ isVertex(selectedObject)
     /\ \E i \in 1..Len(vertices) : vertices[i] = selectedObject.id
  \/ /\ selectedObject.type = "Edge"
     /\ \E i \in 1..Len(edges) : edges[i] = selectedObject.id

\* C21, the case: the selected vertex was deleted, an edge with it, and a
\* vertex stays.
C21_Witness ==
  /\ last.op = "keydown"
  /\ last.note = "vertex deleted"
  /\ last.n >= 1
  /\ Len(vertices) >= 1
  /\ selectedObject = NULL

\* C22: every element of the edge collection is an Edge or a DirEdge, never
\* an edge that follows the pointer, and after every release no edge is
\* under construction.
C22_OnlyCommittedStored ==
  /\ \A i \in 1..Len(edges) : E[edges[i]].kind \in {"Edge", "DirEdge"}
  /\ last.op = "mouseup" => currentEdge = NULL

\* C22, the case: a release has just stored a directed edge.
C22_Witness ==
  /\ last.op = "mouseup"
  /\ last.note = "committed"
  /\ E[edges[Len(edges)]].kind = "DirEdge"
  /\ currentEdge = NULL

\* The positions of the stored vertices, in order.
positions ==
  [i \in 1..Len(vertices) |-> [x |-> V[vertices[i]].x, y |-> V[vertices[i]].y]]

\* The vertex a press without a modifier has put under the pointer's control:
\* the selected vertex of a drag that is not a connect gesture.
dragged ==
  IF /\ movingObject
     /\ currentEdge = NULL
     /\ selectedObject # NULL
     /\ isVertex(selectedObject)
  THEN {selectedObject.id} ELSE {}

\* C23: a press moves no vertex; a move changes the position of no vertex
\* but the one pressed without a modifier, and with no other vertex within
\* SNAP_MARGIN of it on either axis puts that one at the pointer plus the
\* offset recorded at the press (its position at the press plus the
\* displacement of the pointer since); moves while idle or connecting,
\* releases, key events and double-clicks on an entity move no vertex.
C23_OnlyDragMoves ==
  [][/\ last'.op = "mousedown" => positions' = positions
     /\ last'.op = "mousemove"
        => /\ Len(vertices') = Len(vertices)
           /\ \A i \in 1..Len(vertices) :
                 vertices[i] \notin dragged => positions'[i] = positions[i]
           /\ \A d \in dragged :
                 LET tx == last'.at.x + V[d].mouseOffsetX
                     ty == last'.at.y + V[d].mouseOffsetY
                 IN (\A i \in 1..Len(vertices) :
                        vertices[i] # d
                        => /\ Abs(V[vertices[i]].x - tx) >= SNAP_MARGIN
                           /\ Abs(V[vertices[i]].y - ty) >= SNAP_MARGIN)
                    => V'[d].x = tx /\ V'[d].y = ty
     /\ last'.op \in {"mouseup", "keyup", "keypress"} => positions' = positions
     /\ (last'.op = "keydown" /\ last'.note \notin {"vertex deleted"})
        => positions' = positions
     /\ (last'.op = "dblclick" /\ selectObject(Cur, last'.at.x, last'.at.y) # NULL)
        => positions' = positions]_vars

\* C24: a move while vertex d is dragged leaves each coordinate of d less
\* than SNAP_MARGIN from the pointer plus the offset recorded at the press,
\* however many other vertices there are, wherever, in whatever order.
C24_SnapWithinMargin ==
  [][(/\ last'.op = "mousemove"
      /\ movingObject
      /\ selectedObject # NULL
      /\ isVertex(selectedObject))
     => LET d == selectedObject.id
            tx == last'.at.x + V[d].mouseOffsetX
            ty == last'.at.y + V[d].mouseOffsetY
        IN /\ Abs(V'[d].x - tx) < SNAP_MARGIN
           /\ Abs(V'[d].y - ty) < SNAP_MARGIN]_vars

\* C25: every pointer or key handler that changes the vertices, the edges,
\* a label, a position or the selection has redrawn the canvas by its end.
C25_RedrawAfterChange ==
  [][(/\ last'.op \in {"mousedown", "mouseup", "mousemove", "dblclick",
                        "keydown", "keypress"}
      /\ \/ sceneShown' # sceneShown
         \/ selectedObject' # selectedObject)
     => emitted'.surface = "canvas"]_vars

\* The width measured for the label of a vertex.
labelWidth(v) == measureText(makeSubscripts(v.text))

\* C26: after a redraw the radius of every vertex is the larger of
\* VERTEX_RADIUS and half the width measured for its label plus
\* VERTEX_PADDING, whatever that width.
C26_RadiusFromLabel ==
  emitted.surface = "canvas"
  => \A i \in 1..Len(vertices) :
        LET r == (labelWidth(V[vertices[i]]) \div 2) + VERTEX_PADDING IN
        V[vertices[i]].radius = IF r > VERTEX_RADIUS THEN r ELSE VERTEX_RADIUS

\* A point both coordinates of which are numbers.
wellDefined(point) == ~isNaN(point.x) /\ ~isNaN(point.y)

\* C27: every point nearestCirclePoint returns to a redraw has well-defined
\* coordinates: for each stored edge the two points between its circles,
\* also when the two centres coincide, and for the edge under construction
\* the point on the source circle, also when the pointer is at its centre.
C27_AnchorsDefined ==
  emitted.surface = "canvas"
  => /\ \A i \in 1..Len(edges) :
           LET a == V[E[edges[i]].v1]
               b == V[E[edges[i]].v2]
           IN /\ wellDefined(nearestCirclePoint(a, b.x, b.y))
              /\ wellDefined(nearestCirclePoint(b, a.x, a.y))
     /\ isStored(currentEdge)
        => /\ wellDefined(nearestCirclePoint(V[currentEdge.v1],
                                             V[currentEdge.v2].x, V[currentEdge.v2].y))
           /\ wellDefined(nearestCirclePoint(V[currentEdge.v2],
                                             V[currentEdge.v1].x, V[currentEdge.v1].y))
     /\ isTemp(currentEdge)
        => wellDefined(nearestCirclePoint(V[currentEdge.vertex],
                                          currentEdge.dest.x, currentEdge.dest.y))
====
